--------------------------- MODULE Spec2Model ---------------------------
(***************************************************************************)
(* The classifier pipeline of ai_support_streamlit (app.py, prompt.py,     *)
(* config.py): build a prompt, call the model, extract / parse / validate  *)
(* the response, retry once with a correction prompt, fall back to the     *)
(* configured constant.                                                    *)
(*                                                                         *)
(* A Python str is a sequence of one-character strings.  A Python value is *)
(* a record [kind, val]: kind is the Python type ("None", "str", "int",    *)
(* "float", "bool", "list", "dict"); val is the characters of a str, the   *)
(* lexeme of a number, TRUE/FALSE-as-text of a bool, the sequence of items *)
(* of a list, and for a dict the function from its keys (character         *)
(* sequences) to its values.  Two dicts are equal, as in Python, when they *)
(* hold the same keys with equal values.                                   *)
(***************************************************************************)
EXTENDS Integers, Sequences, FiniteSets, TLC

VARIABLES
    pc,           \* where call_gemini stands: "idle", "await1", "await2", "done", "raised"
    message,      \* the argument of call_gemini
    calls,        \* the generate_content calls made so far by this invocation, in order
    outcomes,     \* how each of these calls ended: "returned" or "raised"
    text1,        \* app.py:102
    data1,        \* app.py:103
    text2,        \* app.py:117
    data2,        \* app.py:118
    result,       \* the value call_gemini returned
    error,        \* the exception that left call_gemini
    invocations,  \* how many times the caller has invoked call_gemini
    vdata,        \* the argument of a direct call of validate_result
    vout,         \* what that call returned
    etext,        \* the argument of a direct call of extract_json_object
    eout,         \* what that call returned
    eagain,       \* what extract_json_object returned when called on eout
    fallback,     \* the value the dict object config.FALLBACK holds now
    aliased,      \* TRUE when result is that very object, not a dict of its own
    threads,      \* of each concurrent invocation of call_gemini, its locals and outcome
    script        \* of each concurrent invocation, how its model calls will be answered

vars == <<pc, message, calls, outcomes, text1, data1, text2, data2, result, error, invocations,
          vdata, vout, etext, eout, eagain, fallback, aliased, threads, script>>

\* The variables of the concurrent invocations.
concurrent == <<threads, script>>

\* The variables of the direct calls of extract_json_object.
extraction == <<etext, eout, eagain>>

(***************************************************************************)
(* Python values                                                           *)
(***************************************************************************)
None == [kind |-> "None", val |-> <<>>]

\* No value yet: the call has not returned.
Unset == [kind |-> "unset", val |-> <<>>]

PyStr(s) == [kind |-> "str", val |-> s]

PyDict(f) == [kind |-> "dict", val |-> f]

PyList(items) == [kind |-> "list", val |-> items]

\* bool(v) for the values parse_model_json can return (app.py:68, 105, 120).
Truthy(v) ==
    CASE v.kind = "None" -> FALSE
      [] v.kind = "str" -> v.val # <<>>
      [] v.kind = "list" -> v.val # <<>>
      [] v.kind = "dict" -> DOMAIN v.val # {}
      [] v.kind = "bool" -> v.val = <<"t","r","u","e">>
      [] OTHER -> TRUE

(***************************************************************************)
(* str methods used by the code                                            *)
(***************************************************************************)
\* The characters str.strip() removes, among the characters of the model.
PyWhitespace == {" ", "\t", "\n", "\r", "\f"}

\* str.strip(): the text without its leading and trailing whitespace.
Strip(s) ==
    IF \A i \in 1..Len(s) : s[i] \in PyWhitespace THEN <<>>
    ELSE LET first == CHOOSE i \in 1..Len(s) :
                          s[i] \notin PyWhitespace /\ \A j \in 1..(i-1) : s[j] \in PyWhitespace
             last == CHOOSE i \in 1..Len(s) :
                          s[i] \notin PyWhitespace /\ \A j \in (i+1)..Len(s) : s[j] \in PyWhitespace
         IN SubSeq(s, first, last)

\* str.startswith / str.endswith with a one-character argument.
StartsWith(s, c) == Len(s) > 0 /\ s[1] = c

EndsWith(s, c) == Len(s) > 0 /\ s[Len(s)] = c

(***************************************************************************)
(* config.py                                                               *)
(***************************************************************************)
MODEL_NAME == <<"g","e","m","i","n","i","-","2",".","5","-","f","l","a","s","h">>

ALLOWED_CATEGORIES == <<
    <<"C","o","m","p","l","a","i","n","t">>,
    <<"R","e","f","u","n","d","/","R","e","t","u","r","n">>,
    <<"S","a","l","e","s"," ","I","n","q","u","i","r","y">>,
    <<"D","e","l","i","v","e","r","y"," ","Q","u","e","s","t","i","o","n">>,
    <<"A","c","c","o","u","n","t","/","T","e","c","h","n","i","c","a","l"," ","I","s","s","u","e">>,
    <<"G","e","n","e","r","a","l"," ","Q","u","e","r","y">>,
    <<"S","p","a","m">> >>

ALLOWED_SENTIMENTS == <<
    <<"P","o","s","i","t","i","v","e">>,
    <<"N","e","u","t","r","a","l">>,
    <<"N","e","g","a","t","i","v","e">> >>

FALLBACK_category == <<"G","e","n","e","r","a","l"," ","Q","u","e","r","y">>

FALLBACK_sentiment == <<"N","e","u","t","r","a","l">>

FALLBACK_reply ==
    <<"T","h","a","n","k","s"," ","f","o","r"," ","r","e","a","c","h","i","n","g"," ","o","u","t",
    "."," ","C","o","u","l","d"," ","y","o","u"," ","p","l","e","a","s","e"," ","s","h","a","r",
    "e"," ","a"," ","b","i","t"," ","m","o","r","e"," ","d","e","t","a","i","l"," ","s","o"," ",
    "w","e"," ","c","a","n"," ","a","s","s","i","s","t"," ","y","o","u","?">>

\* The three keys of a result (app.py:45, config.py:22-24).
KEY_category == <<"c","a","t","e","g","o","r","y">>

KEY_sentiment == <<"s","e","n","t","i","m","e","n","t">>

KEY_reply == <<"r","e","p","l","y">>

TEMPERATURE == "0.2"

FALLBACK ==
    PyDict((KEY_category :> PyStr(FALLBACK_category))
           @@ (KEY_sentiment :> PyStr(FALLBACK_sentiment))
           @@ (KEY_reply :> PyStr(FALLBACK_reply)))

(***************************************************************************)
(* prompt.py                                                               *)
(***************************************************************************)
\* repr() of a list of str, none of which holds a quote or a backslash:
\* ['a', 'b'].
RECURSIVE ReprItems(_, _)
ReprItems(list, i) ==
    IF i > Len(list) THEN <<>>
    ELSE (IF i > 1 THEN <<",", " ">> ELSE <<>>) \o <<"'">> \o list[i] \o <<"'">>
         \o ReprItems(list, i + 1)

ReprList(list) == <<"[">> \o ReprItems(list, 1) \o <<"]">>

\* prompt.py:4-14, the template text before {allowed_categories}
SYSTEM_TEMPLATE_1 ==
    <<"\n","Y","o","u"," ","a","r","e"," ","a"," ","c","u","s","t","o","m","e","r"," ","s","u","p",
    "p","o","r","t"," ","a","s","s","i","s","t","a","n","t",".","\n","\n","Y","o","u"," ","w",
    "i","l","l"," ","r","e","c","e","i","v","e"," ","a"," ","s","i","n","g","l","e"," ","c","u",
    "s","t","o","m","e","r"," ","m","e","s","s","a","g","e",".","\n","Y","o","u","r"," ","j",
    "o","b",":","\n","1",")"," ","A","s","s","i","g","n"," ","e","x","a","c","t","l","y"," ",
    "O","N","E"," ","c","a","t","e","g","o","r","y","\n","2",")"," ","A","s","s","i","g","n",
    " ","e","x","a","c","t","l","y"," ","O","N","E"," ","s","e","n","t","i","m","e","n","t",
    "\n","3",")"," ","W","r","i","t","e"," ","a"," ","s","h","o","r","t",","," ","p","r","o",
    "f","e","s","s","i","o","n","a","l"," ","a","u","t","o","-","r","e","p","l","y","\n","\n",
    "A","l","l","o","w","e","d"," ","c","a","t","e","g","o","r","i","e","s"," ","(","m","u","s",
    "t"," ","m","a","t","c","h"," ","e","x","a","c","t","l","y",")",":","\n">>

\* prompt.py:14-17, the text between {allowed_categories} and {allowed_sentiments}
SYSTEM_TEMPLATE_2 ==
    <<"\n","\n","A","l","l","o","w","e","d"," ","s","e","n","t","i","m","e","n","t","s"," ","(","m",
    "u","s","t"," ","m","a","t","c","h"," ","e","x","a","c","t","l","y",")",":","\n">>

\* prompt.py:17-23, the text after {allowed_sentiments}
SYSTEM_TEMPLATE_3 ==
    <<"\n","\n","O","u","t","p","u","t"," ","r","u","l","e","s"," ","(","v","e","r","y"," ","i","m",
    "p","o","r","t","a","n","t",")",":","\n","-"," ","O","u","t","p","u","t"," ","M","U","S",
    "T"," ","b","e"," ","v","a","l","i","d"," ","J","S","O","N"," ","O","N","L","Y"," ","(","n",
    "o"," ","m","a","r","k","d","o","w","n",","," ","n","o"," ","e","x","t","r","a"," ","t","e",
    "x","t",","," ","n","o"," ","c","o","d","e"," ","f","e","n","c","e","s",")",".","\n","-",
    " ","J","S","O","N"," ","m","u","s","t"," ","h","a","v","e"," ","e","x","a","c","t","l","y",
    " ","t","h","e","s","e"," ","k","e","y","s",":"," ","\"","c","a","t","e","g","o","r","y",
    "\"",","," ","\"","s","e","n","t","i","m","e","n","t","\"",","," ","\"","r","e","p","l","y",
    "\"","\n","-"," ","\"","r","e","p","l","y","\""," ","m","u","s","t"," ","b","e"," ","s","h",
    "o","r","t",","," ","p","r","o","f","e","s","s","i","o","n","a","l",","," ","a","n","d"," ",
    "r","e","l","e","v","a","n","t"," ","t","o"," ","t","h","e"," ","m","e","s","s","a","g","e",
    ".","\n">>

\* prompt.py:27-34, the template text before {bad_text}
FIX_TEMPLATE_1 ==
    <<"\n","Y","o","u","r"," ","p","r","e","v","i","o","u","s"," ","o","u","t","p","u","t"," ","w",
    "a","s"," ","n","o","t"," ","v","a","l","i","d"," ","J","S","O","N"," ","o","r"," ","d","i",
    "d"," ","n","o","t"," ","f","o","l","l","o","w"," ","t","h","e"," ","s","c","h","e","m","a",
    ".","\n","\n","F","i","x"," ","i","t"," ","a","n","d"," ","r","e","t","u","r","n"," ","O",
    "N","L","Y"," ","v","a","l","i","d"," ","J","S","O","N"," ","w","i","t","h"," ","k","e","y",
    "s",":","\n","\"","c","a","t","e","g","o","r","y","\"",","," ","\"","s","e","n","t","i","m",
    "e","n","t","\"",","," ","\"","r","e","p","l","y","\"","\n","\n","H","e","r","e"," ","i",
    "s"," ","t","h","e"," ","p","r","e","v","i","o","u","s"," ","o","u","t","p","u","t",":",
    "\n">>

\* prompt.py:34-35, the text after {bad_text}
FIX_TEMPLATE_2 == <<"\n">>

CUSTOMER_HEADER ==
    <<"\n","\n","C","u","s","t","o","m","e","r"," ","m","e","s","s","a","g","e",":","\n">>

\* build_system_prompt (prompt.py:3-23): the f-string, stripped.
build_system_prompt(allowed_categories, allowed_sentiments) ==
    Strip(SYSTEM_TEMPLATE_1 \o ReprList(allowed_categories) \o SYSTEM_TEMPLATE_2
          \o ReprList(allowed_sentiments) \o SYSTEM_TEMPLATE_3)

\* build_fix_json_prompt (prompt.py:26-35): the f-string with bad_text in it,
\* stripped as a whole.
build_fix_json_prompt(bad_text) ==
    Strip(FIX_TEMPLATE_1 \o bad_text \o FIX_TEMPLATE_2)

(***************************************************************************)
(* app.py: extraction                                                      *)
(***************************************************************************)
\* A variant whose "*" is lazy: the match ends at the first "}" after the
\* first "{".
SearchBraces_lazy(text) ==
    LET opens == {i \in 1..Len(text) : text[i] = "{"}
    IN IF opens = {} THEN None
       ELSE LET a == CHOOSE i \in opens : \A j \in opens : i <= j
                closes == {i \in (a + 1)..Len(text) : text[i] = "}"}
            IN IF closes = {} THEN None
               ELSE PyStr(SubSeq(text, a, CHOOSE i \in closes : \A j \in closes : i <= j))

\* A variant without re.DOTALL: "." stops at a line break, so the match lies
\* within one line, from the first "{" that a "}" follows on its line to the
\* last "}" of that line.
SearchBraces_no_dotall(text) ==
    LET SameLine(a, b) == \A k \in a..b : text[k] # "\n"
        starts == {a \in 1..Len(text) :
                      text[a] = "{" /\ \E b \in (a + 1)..Len(text) : text[b] = "}" /\ SameLine(a, b)}
    IN IF starts = {} THEN None
       ELSE LET a == CHOOSE i \in starts : \A j \in starts : i <= j
                ends == {b \in (a + 1)..Len(text) : text[b] = "}" /\ SameLine(a, b)}
            IN PyStr(SubSeq(text, a, CHOOSE i \in ends : \A j \in ends : j <= i))

\* re.search(r"\{.*\}", text, flags=re.DOTALL): the leftmost match starts at
\* the first "{" and, "." matching every character and "*" being greedy, ends
\* at the last "}" after it; no match when no "}" follows the first "{".
SearchBraces(text) ==
    LET opens == {i \in 1..Len(text) : text[i] = "{"}
        closes == {i \in 1..Len(text) : text[i] = "}"}
    IN IF opens = {} \/ closes = {} THEN None
       ELSE LET a == CHOOSE i \in opens : \A j \in opens : i <= j
                b == CHOOSE i \in closes : \A j \in closes : j <= i
            IN IF a < b THEN PyStr(SubSeq(text, a, b)) ELSE None

\* A variant that takes what is between the braces: group(1) of \{(.*)\}.
MatchText_inner(match) ==
    IF match = None THEN None
    ELSE PyStr(Strip(SubSeq(match.val, 2, Len(match.val) - 1)))

\* `match.group(0).strip() if match else None` (app.py:37).
MatchText(match) == IF match = None THEN None ELSE PyStr(Strip(match.val))

\* app.py:31-37, on the stripped text.
ExtractStripped(text) ==
    IF StartsWith(text, "{") /\ EndsWith(text, "}") THEN PyStr(text)
    ELSE MatchText(SearchBraces(text))

\* A variant that takes the text only when the whole of it is bracketed, without
\* the search of app.py:33-35.
extract_json_object_whole(text) ==
    IF text = <<>> THEN None
    ELSE IF StartsWith(Strip(text), "{") /\ EndsWith(Strip(text), "}") THEN PyStr(Strip(text))
    ELSE None

\* A variant that hands the whole stripped text to the parser, bracketed or
\* not.
extract_json_object_any(text) ==
    IF Strip(text) = <<>> THEN None ELSE PyStr(Strip(text))

\* extract_json_object (app.py:22-37).
extract_json_object(text) == IF text = <<>> THEN None ELSE ExtractStripped(Strip(text))

(***************************************************************************)
(* json.loads (app.py:71), as CPython's json decoder reads a str: a        *)
(* scanner that cuts the text into tokens, and the decoder proper, which   *)
(* reads the tokens in order with an explicit stack of open containers.    *)
(***************************************************************************)
\* The whitespace the decoder skips between tokens.
JsonWhitespace == {" ", "\t", "\n", "\r"}

JsonPunctuation == {"{", "}", "[", "]", ":", ","}

\* The characters below U+0020 of the model: not allowed raw inside a string
\* (the decoder is strict).
ControlChars == {"\t", "\n", "\r", "\f", "<BS>"}

Digits == {"0", "1", "2", "3", "4", "5", "6", "7", "8", "9"}

HexDigits == Digits \cup {"a", "b", "c", "d", "e", "f", "A", "B", "C", "D", "E", "F"}

\* The number pattern of the decoder, -?(0|[1-9]\d*)(\.\d+)?([eE][-+]?\d+)?,
\* as an automaton: the state after reading character c in state q.
NumberStep(q, c) ==
    CASE q = "start" -> IF c = "-" THEN "minus" ELSE IF c = "0" THEN "zero"
                        ELSE IF c \in Digits THEN "int" ELSE "reject"
      [] q = "minus" -> IF c = "0" THEN "zero" ELSE IF c \in Digits THEN "int" ELSE "reject"
      [] q \in {"zero", "int"} ->
            IF c \in Digits /\ q = "int" THEN "int"
            ELSE IF c = "." THEN "dot"
            ELSE IF c \in {"e", "E"} THEN "exp" ELSE "reject"
      [] q = "dot" -> IF c \in Digits THEN "frac" ELSE "reject"
      [] q = "frac" -> IF c \in Digits THEN "frac"
                       ELSE IF c \in {"e", "E"} THEN "exp" ELSE "reject"
      [] q = "exp" -> IF c \in {"-", "+"} THEN "expsign"
                      ELSE IF c \in Digits THEN "expdigits" ELSE "reject"
      [] q = "expsign" -> IF c \in Digits THEN "expdigits" ELSE "reject"
      [] q = "expdigits" -> IF c \in Digits THEN "expdigits" ELSE "reject"
      [] OTHER -> "reject"

NumberRejected(q) == q = "reject"

\* NumberStep, left to right over s[lo..hi], stopping once NumberRejected
\* holds; evaluated by halving, so that the depth of the evaluation stays
\* logarithmic in the length.
RECURSIVE NumberFold(_, _, _, _)
NumberFold(s, lo, hi, acc) ==
    IF lo > hi \/ NumberRejected(acc) THEN acc
    ELSE IF lo = hi THEN NumberStep(acc, s[lo])
    ELSE LET mid == (lo + hi) \div 2
             left == NumberFold(s, lo, mid, acc)
         IN IF NumberRejected(left) THEN left ELSE NumberFold(s, mid + 1, hi, left)

\* What the final state of the automaton says of the lexeme.
NumberVerdict(q) ==
    IF q \in {"zero", "int"} THEN "int"
    ELSE IF q \in {"frac", "expdigits"} THEN "float" ELSE "reject"

\* "int", "float" or "reject": how the number pattern matches the whole lexeme.
NumberKind(lexeme) == NumberVerdict(NumberFold(lexeme, 1, Len(lexeme), "start"))

\* The token of a lexeme the number pattern matches as kind.
NumberToken(lexeme, kind) ==
    IF kind = "reject" THEN [kind |-> "bad", val |-> lexeme]
    ELSE [kind |-> "value", val |-> [kind |-> kind, val |-> lexeme]]

\* The token of a run of characters that is neither a string nor punctuation:
\* a literal, a number, or nothing the decoder accepts.
WordToken(lexeme) ==
    IF lexeme = <<"t","r","u","e">> \/ lexeme = <<"f","a","l","s","e">>
    THEN [kind |-> "value", val |-> [kind |-> "bool", val |-> lexeme]]
    ELSE IF lexeme = <<"n","u","l","l">> THEN [kind |-> "value", val |-> None]
    ELSE IF lexeme \in {<<"N","a","N">>, <<"I","n","f","i","n","i","t","y">>,
                        <<"-","I","n","f","i","n","i","t","y">>}
    THEN [kind |-> "value", val |-> [kind |-> "float", val |-> lexeme]]
    ELSE NumberToken(lexeme, NumberKind(lexeme))

\* The character a backslash escape stands for inside a string (py_scanstring).
EscapeChar(c) ==
    CASE c = "b" -> "<BS>"
      [] c = "f" -> "\f"
      [] c = "n" -> "\n"
      [] c = "r" -> "\r"
      [] c = "t" -> "\t"
      [] OTHER -> c

\* int(digit, 16) of a hexadecimal digit reads both cases alike.
HexUpper(c) ==
    CASE c = "a" -> "A" [] c = "b" -> "B" [] c = "c" -> "C"
      [] c = "d" -> "D" [] c = "e" -> "E" [] c = "f" -> "F" [] OTHER -> c

\* The character of \uXXXX: the code point, written "U+XXXX".  (The texts of
\* the model escape no character that they also write raw, and no surrogate.)
UnicodeChar(hex) ==
    "U+" \o HexUpper(hex[1]) \o HexUpper(hex[2]) \o HexUpper(hex[3]) \o HexUpper(hex[4])

ScanInit == [st |-> "out", cur |-> <<>>, hex |-> <<>>, toks |-> <<>>]

Emit(a, tok) == [a EXCEPT !.st = "out", !.cur = <<>>, !.toks = Append(a.toks, tok)]

\* An error inside a token: the token is bad and nothing after it is read.
ScanDead(a) == [a EXCEPT !.st = "dead", !.toks = Append(a.toks, [kind |-> "bad", val |-> a.cur])]

\* One character read between tokens.
ScanOut(a, c) ==
    IF c \in JsonWhitespace THEN a
    ELSE IF c \in JsonPunctuation THEN Emit(a, [kind |-> "punct", val |-> <<c>>])
    ELSE IF c = "\"" THEN [a EXCEPT !.st = "str", !.cur = <<>>]
    ELSE [a EXCEPT !.st = "word", !.cur = <<c>>]

\* One character read by the scanner.
ScanStep(a, c) ==
    CASE a.st = "out" -> ScanOut(a, c)
      [] a.st = "word" ->
            IF c \in JsonWhitespace \cup JsonPunctuation \cup {"\""}
            THEN ScanOut(Emit(a, WordToken(a.cur)), c)
            ELSE [a EXCEPT !.cur = Append(a.cur, c)]
      [] a.st = "str" ->
            IF c = "\"" THEN Emit(a, [kind |-> "value", val |-> PyStr(a.cur)])
            ELSE IF c = "\\" THEN [a EXCEPT !.st = "esc"]
            ELSE IF c \in ControlChars THEN ScanDead(a)
            ELSE [a EXCEPT !.cur = Append(a.cur, c)]
      [] a.st = "esc" ->
            IF c \in {"\"", "\\", "/", "b", "f", "n", "r", "t"}
            THEN [a EXCEPT !.st = "str", !.cur = Append(a.cur, EscapeChar(c))]
            ELSE IF c = "u" THEN [a EXCEPT !.st = "hex", !.hex = <<>>]
            ELSE ScanDead(a)
      [] a.st = "hex" ->
            IF c \notin HexDigits THEN ScanDead(a)
            ELSE IF Len(a.hex) = 3
            THEN [a EXCEPT !.st = "str", !.hex = <<>>,
                           !.cur = Append(a.cur, UnicodeChar(Append(a.hex, c)))]
            ELSE [a EXCEPT !.hex = Append(a.hex, c)]
      [] OTHER -> a

ScanHalted(a) == a.st = "dead"

\* ScanStep, left to right over s[lo..hi], stopping once ScanHalted
\* holds; evaluated by halving, so that the depth of the evaluation stays
\* logarithmic in the length.
RECURSIVE ScanFold(_, _, _, _)
ScanFold(s, lo, hi, acc) ==
    IF lo > hi \/ ScanHalted(acc) THEN acc
    ELSE IF lo = hi THEN ScanStep(acc, s[lo])
    ELSE LET mid == (lo + hi) \div 2
             left == ScanFold(s, lo, mid, acc)
         IN IF ScanHalted(left) THEN left ELSE ScanFold(s, mid + 1, hi, left)

\* The end of the text: a word ends with it; an unterminated string is a bad
\* token.
ScanEnd(a) ==
    CASE a.st = "word" -> Append(a.toks, WordToken(a.cur))
      [] a.st \in {"str", "esc", "hex"} -> Append(a.toks, [kind |-> "bad", val |-> a.cur])
      [] OTHER -> a.toks

\* The tokens of a text.
Tokens(s) == ScanEnd(ScanFold(s, 1, Len(s), ScanInit))

\* sys.getrecursionlimit() of the interpreter running app.py (CPython's default):
\* the decoder enters one recursive call per open object or array, and the
\* frames of its callers only lower the depth it can reach.  The texts of the
\* model nest either a few levels or more than RecursionLimit levels.
RecursionLimit == 1000

DecodeInit == [st |-> "run", stack |-> <<>>, top |-> "value", result |-> None]

DecodeError(a) == [a EXCEPT !.st = "JSONDecodeError"]

\* A value is complete: it is the document, a member of the open object, or an
\* item of the open array.  A repeated key keeps its last value.
Deliver(a, v) ==
    IF a.stack = <<>> THEN [a EXCEPT !.top = "end", !.result = v]
    ELSE LET n == Len(a.stack)
             f == a.stack[n]
         IN IF f.kind = "dict"
            THEN [a EXCEPT !.stack[n] = [f EXCEPT !.val = (f.key :> v) @@ f.val,
                                                  !.exp = "comma_or_end"]]
            ELSE [a EXCEPT !.stack[n] = [f EXCEPT !.val = Append(f.val, v),
                                                  !.exp = "comma_or_end"]]

\* "{" or "[" where a value is expected: one more recursive call.
Open(a, kind) ==
    IF Len(a.stack) >= RecursionLimit THEN [a EXCEPT !.st = "RecursionError"]
    ELSE [a EXCEPT !.stack = Append(a.stack,
              [kind |-> kind, val |-> <<>>, key |-> <<>>,
               exp |-> IF kind = "dict" THEN "key_or_end" ELSE "value_or_end"])]

\* "}" or "]" closing the open container.
Close(a) ==
    LET n == Len(a.stack)
        f == a.stack[n]
    IN Deliver([a EXCEPT !.stack = SubSeq(a.stack, 1, n - 1)],
               IF f.kind = "dict" THEN PyDict(f.val) ELSE PyList(f.val))

IsPunct(tok, c) == tok.kind = "punct" /\ tok.val = <<c>>

IsString(tok) == tok.kind = "value" /\ tok.val.kind = "str"

\* One token read by the decoder.
DecodeStep(a, tok) ==
    LET n == Len(a.stack)
        exp == IF n = 0 THEN a.top ELSE a.stack[n].exp
        inDict == n > 0 /\ a.stack[n].kind = "dict"
    IN CASE tok.kind = "bad" -> DecodeError(a)
         [] tok.kind # "bad" /\ exp \in {"value", "value_or_end"} ->
               IF tok.kind = "value" THEN Deliver(a, tok.val)
               ELSE IF IsPunct(tok, "{") THEN Open(a, "dict")
               ELSE IF IsPunct(tok, "[") THEN Open(a, "list")
               ELSE IF IsPunct(tok, "]") /\ exp = "value_or_end" THEN Close(a)
               ELSE DecodeError(a)
         [] tok.kind # "bad" /\ exp \in {"key", "key_or_end"} ->
               IF IsString(tok)
               THEN [a EXCEPT !.stack[n] = [@ EXCEPT !.key = tok.val.val, !.exp = "colon"]]
               ELSE IF IsPunct(tok, "}") /\ exp = "key_or_end" THEN Close(a)
               ELSE DecodeError(a)
         [] tok.kind # "bad" /\ exp = "colon" ->
               IF IsPunct(tok, ":") THEN [a EXCEPT !.stack[n] = [@ EXCEPT !.exp = "value"]]
               ELSE DecodeError(a)
         [] tok.kind # "bad" /\ exp = "comma_or_end" ->
               IF IsPunct(tok, ",")
               THEN [a EXCEPT !.stack[n] = [@ EXCEPT !.exp = IF inDict THEN "key" ELSE "value"]]
               ELSE IF (inDict /\ IsPunct(tok, "}")) \/ (~inDict /\ IsPunct(tok, "]"))
               THEN Close(a)
               ELSE DecodeError(a)
         [] OTHER -> DecodeError(a)

DecodeHalted(a) == a.st # "run"

\* DecodeStep, left to right over s[lo..hi], stopping once DecodeHalted
\* holds; evaluated by halving, so that the depth of the evaluation stays
\* logarithmic in the length.
RECURSIVE DecodeFold(_, _, _, _)
DecodeFold(s, lo, hi, acc) ==
    IF lo > hi \/ DecodeHalted(acc) THEN acc
    ELSE IF lo = hi THEN DecodeStep(acc, s[lo])
    ELSE LET mid == (lo + hi) \div 2
             left == DecodeFold(s, lo, mid, acc)
         IN IF DecodeHalted(left) THEN left ELSE DecodeFold(s, mid + 1, hi, left)

\* The end of the tokens: the document is complete, or the text is cut short.
DecodeEnd(a) ==
    IF a.st # "run" THEN [kind |-> a.st, val |-> None]
    ELSE IF a.stack = <<>> /\ a.top = "end" THEN [kind |-> "ok", val |-> a.result]
    ELSE [kind |-> "JSONDecodeError", val |-> None]

Decode(toks) == DecodeEnd(DecodeFold(toks, 1, Len(toks), DecodeInit))

\* json.loads(s): [kind |-> "ok", val |-> the value], or the exception raised:
\* JSONDecodeError for a text that is not one JSON document, RecursionError
\* for one that nests deeper than the interpreter allows.
json_loads(s) == Decode(Tokens(s))

\* app.py:70-73: the value json.loads returns is returned, JSONDecodeError is
\* caught and None returned, any other exception leaves parse_model_json.
TryLoads(r) ==
    CASE r.kind = "ok" -> [kind |-> "return", val |-> r.val]
      [] r.kind = "JSONDecodeError" -> [kind |-> "return", val |-> None]
      [] OTHER -> [kind |-> "raise", val |-> r.kind]

\* app.py:68-73, given what extract_json_object returned.
ParseExtracted(json_str) ==
    IF ~Truthy(json_str) THEN [kind |-> "return", val |-> None]
    ELSE TryLoads(json_loads(json_str.val))

\* parse_model_json (app.py:65-73): what it returns, or the exception that
\* leaves it.
parse_model_json(text) == ParseExtracted(extract_json_object(text))

(***************************************************************************)
(* app.py: validation                                                      *)
(***************************************************************************)
\* The keys validate_result looks for, in the order of its loop (app.py:45).
REQUIRED_KEYS == <<KEY_category, KEY_sentiment, KEY_reply>>

\* The longest reply validate_result accepts (app.py:59).
MAX_REPLY_LEN == 350

\* str.lower(), on the letters of the model's texts.
UpperLetters ==
    <<"A","B","C","D","E","F","G","H","I","J","K","L","M","N","O","P","Q","R","S","T","U","V","W",
      "X","Y","Z">>

LowerLetters ==
    <<"a","b","c","d","e","f","g","h","i","j","k","l","m","n","o","p","q","r","s","t","u","v","w",
      "x","y","z">>

LowerChar(c) ==
    IF \E k \in 1..Len(UpperLetters) : UpperLetters[k] = c
    THEN LowerLetters[CHOOSE k \in 1..Len(UpperLetters) : UpperLetters[k] = c]
    ELSE c

Lower(s) == [i \in 1..Len(s) |-> LowerChar(s[i])]

\* A variant that compares without regard to case.
PyIn_caseless(v, list) ==
    v.kind = "str" /\ \E i \in 1..Len(list) : Lower(list[i]) = Lower(v.val)

\* `value in list_of_str`: equality with an item; only a str equals a str.
PyIn(v, list) == v.kind = "str" /\ \E i \in 1..Len(list) : list[i] = v.val

\* The reason strings of validate_result, as character sequences.
MSG_NOT_OBJECT ==
    <<"O","u","t","p","u","t"," ","i","s"," ","n","o","t"," ","a"," ","J","S","O","N"," ",
      "o","b","j","e","c","t",".">>

MSG_MISSING_KEY == <<"M","i","s","s","i","n","g"," ","k","e","y",":"," ">>

MSG_INVALID_CATEGORY ==
    <<"I","n","v","a","l","i","d"," ","c","a","t","e","g","o","r","y",":"," ">>

MSG_INVALID_SENTIMENT ==
    <<"I","n","v","a","l","i","d"," ","s","e","n","t","i","m","e","n","t",":"," ">>

MSG_REPLY_EMPTY ==
    <<"R","e","p","l","y"," ","i","s"," ","e","m","p","t","y"," ","o","r"," ","n","o","t"," ",
      "a"," ","s","t","r","i","n","g",".">>

MSG_REPLY_TOO_LONG == <<"R","e","p","l","y"," ","i","s"," ","t","o","o"," ","l","o","n","g",".">>

MSG_OK == <<"O","K">>

\* f"{text}{v}": a str is interpolated as it is; the text of any other value
\* is left unformatted, as the pair of the literal text and the value.
FString(text, v) ==
    IF v.kind = "str" THEN [text |-> text \o v.val, arg |-> None]
    ELSE [text |-> text, arg |-> v]

Verdict(ok, reason) == [kind |-> "return", ok |-> ok, reason |-> reason]

Raised(exception) ==
    [kind |-> "raise", ok |-> FALSE, reason |-> [text |-> exception, arg |-> None]]

TypeError == <<"T","y","p","e","E","r","r","o","r">>

\* `key in data` where data has membership: a key of a dict, an item of a
\* list, a substring of a str.
PyContains(data, key) ==
    CASE data.kind = "dict" -> key \in DOMAIN data.val
      [] data.kind = "list" -> \E j \in 1..Len(data.val) : data.val[j] = PyStr(key)
      [] data.kind = "str" ->
            \E o \in 0..(Len(data.val) - Len(key)) : SubSeq(data.val, o + 1, o + Len(key)) = key
      [] OTHER -> FALSE

\* The part of validate_result after the isinstance test (app.py:45-62).  On a
\* value that is no dict its operations raise: `key in data` where data has no
\* membership, data[key] where data is a list or a str.
\* A variant that measures the reply once trimmed.
ValidateMapping_trimmed_length(data) ==
    IF data.kind \in {"None", "int", "float", "bool"} THEN Raised(TypeError)
    ELSE LET missing == {i \in 1..Len(REQUIRED_KEYS) : ~PyContains(data, REQUIRED_KEYS[i])}
         IN IF missing # {}
            THEN LET first == CHOOSE i \in missing : \A j \in missing : i <= j
                 IN Verdict(FALSE, FString(MSG_MISSING_KEY, PyStr(REQUIRED_KEYS[first])))
            ELSE IF data.kind # "dict" THEN Raised(TypeError)
            ELSE LET category == data.val[KEY_category]
                     sentiment == data.val[KEY_sentiment]
                     reply == data.val[KEY_reply]
                 IN IF ~PyIn(category, ALLOWED_CATEGORIES)
                    THEN Verdict(FALSE, FString(MSG_INVALID_CATEGORY, category))
                    ELSE IF ~PyIn(sentiment, ALLOWED_SENTIMENTS)
                    THEN Verdict(FALSE, FString(MSG_INVALID_SENTIMENT, sentiment))
                    ELSE IF reply.kind # "str" \/ Strip(reply.val) = <<>>
                    THEN Verdict(FALSE, [text |-> MSG_REPLY_EMPTY, arg |-> None])
                    ELSE IF Len(Strip(reply.val)) > MAX_REPLY_LEN
                    THEN Verdict(FALSE, [text |-> MSG_REPLY_TOO_LONG, arg |-> None])
                    ELSE Verdict(TRUE, [text |-> MSG_OK, arg |-> None])

\* A variant that tests the sentiment before the category.
ValidateMapping_sentiment_first(data) ==
    IF data.kind \in {"None", "int", "float", "bool"} THEN Raised(TypeError)
    ELSE LET missing == {i \in 1..Len(REQUIRED_KEYS) : ~PyContains(data, REQUIRED_KEYS[i])}
         IN IF missing # {}
            THEN LET first == CHOOSE i \in missing : \A j \in missing : i <= j
                 IN Verdict(FALSE, FString(MSG_MISSING_KEY, PyStr(REQUIRED_KEYS[first])))
            ELSE IF data.kind # "dict" THEN Raised(TypeError)
            ELSE LET category == data.val[KEY_category]
                     sentiment == data.val[KEY_sentiment]
                     reply == data.val[KEY_reply]
                 IN IF ~PyIn(sentiment, ALLOWED_SENTIMENTS)
                    THEN Verdict(FALSE, FString(MSG_INVALID_SENTIMENT, sentiment))
                    ELSE IF ~PyIn(category, ALLOWED_CATEGORIES)
                    THEN Verdict(FALSE, FString(MSG_INVALID_CATEGORY, category))
                    ELSE IF reply.kind # "str" \/ Strip(reply.val) = <<>>
                    THEN Verdict(FALSE, [text |-> MSG_REPLY_EMPTY, arg |-> None])
                    ELSE IF Len(reply.val) > MAX_REPLY_LEN
                    THEN Verdict(FALSE, [text |-> MSG_REPLY_TOO_LONG, arg |-> None])
                    ELSE Verdict(TRUE, [text |-> MSG_OK, arg |-> None])

ValidateMapping(data) ==
    IF data.kind \in {"None", "int", "float", "bool"} THEN Raised(TypeError)
    ELSE LET missing == {i \in 1..Len(REQUIRED_KEYS) : ~PyContains(data, REQUIRED_KEYS[i])}
         IN IF missing # {}
            THEN LET first == CHOOSE i \in missing : \A j \in missing : i <= j
                 IN Verdict(FALSE, FString(MSG_MISSING_KEY, PyStr(REQUIRED_KEYS[first])))
            ELSE IF data.kind # "dict" THEN Raised(TypeError)
            ELSE LET category == data.val[KEY_category]
                     sentiment == data.val[KEY_sentiment]
                     reply == data.val[KEY_reply]
                 IN IF ~PyIn(category, ALLOWED_CATEGORIES)
                    THEN Verdict(FALSE, FString(MSG_INVALID_CATEGORY, category))
                    ELSE IF ~PyIn(sentiment, ALLOWED_SENTIMENTS)
                    THEN Verdict(FALSE, FString(MSG_INVALID_SENTIMENT, sentiment))
                    ELSE IF reply.kind # "str" \/ Strip(reply.val) = <<>>
                    THEN Verdict(FALSE, [text |-> MSG_REPLY_EMPTY, arg |-> None])
                    ELSE IF Len(reply.val) > MAX_REPLY_LEN
                    THEN Verdict(FALSE, [text |-> MSG_REPLY_TOO_LONG, arg |-> None])
                    ELSE Verdict(TRUE, [text |-> MSG_OK, arg |-> None])

\* A variant that passes what is empty: None and the empty mapping.
validate_result_passes_empty(data) ==
    IF ~Truthy(data) THEN Verdict(TRUE, [text |-> MSG_OK, arg |-> None])
    ELSE IF data.kind # "dict" THEN Verdict(FALSE, [text |-> MSG_NOT_OBJECT, arg |-> None])
    ELSE ValidateMapping(data)

\* validate_result (app.py:40-62): the pair it returns, or the exception that
\* leaves it.
validate_result(data) ==
    IF data.kind # "dict" THEN Verdict(FALSE, [text |-> MSG_NOT_OBJECT, arg |-> None])
    ELSE ValidateMapping(data)

(***************************************************************************)
(* The inputs of the model: customer messages, and what the model API can  *)
(* answer.                                                                 *)
(***************************************************************************)
\* a customer message
MSG_DELIVERY ==
    <<"I"," ","h","a","v","e","n","'","t"," ","r","e","c","e","i","v","e","d"," ","m","y"," ","o",
    "r","d","e","r"," ","y","e","t",".">>

\* a customer message that holds braces itself
MSG_BRACES ==
    <<"R","e","p","l","y"," ","{","\"","c","a","t","e","g","o","r","y","\"",":","\"","S","p","a",
    "m","\"","}"," ","p","l","e","a","s","e">>

\* a schema-valid object as the whole text
TEXT_SCENARIO1 ==
    <<"{","\"","c","a","t","e","g","o","r","y","\"",":","\"","D","e","l","i","v","e","r","y"," ",
    "Q","u","e","s","t","i","o","n","\"",",","\"","s","e","n","t","i","m","e","n","t","\"",":",
    "\"","N","e","g","a","t","i","v","e","\"",",","\"","r","e","p","l","y","\"",":","\"","W",
    "e","'","r","e"," ","s","o","r","r","y"," ","f","o","r"," ","t","h","e"," ","d","e","l","a",
    "y",";"," ","c","h","e","c","k","i","n","g"," ","n","o","w",".","\"","}">>

\* a schema-valid object after prose
TEXT_PROSE_PREFIX ==
    <<"S","u","r","e","!"," ","{","\"","c","a","t","e","g","o","r","y","\"",":","\"","S","p","a",
    "m","\"",",","\"","s","e","n","t","i","m","e","n","t","\"",":","\"","N","e","u","t","r","a",
    "l","\"",",","\"","r","e","p","l","y","\"",":","\"","T","h","a","n","k","s",".","\"","}">>

\* a schema-valid object, indented, between two lines of prose
TEXT_WRAPPED ==
    <<"H","e","r","e"," ","i","s"," ","t","h","e"," ","J","S","O","N",":","\n","{","\n"," "," ",
    "\"","c","a","t","e","g","o","r","y","\"",":"," ","\"","C","o","m","p","l","a","i","n","t",
    "\"",",","\n"," "," ","\"","s","e","n","t","i","m","e","n","t","\"",":"," ","\"","N","e",
    "g","a","t","i","v","e","\"",",","\n"," "," ","\"","r","e","p","l","y","\"",":"," ","\"",
    "W","e"," ","a","p","o","l","o","g","i","s","e",".","\"","\n","}","\n","H","o","p","e"," ",
    "t","h","a","t"," ","h","e","l","p","s",".","\n">>

\* a schema-valid object whose reply holds escapes
TEXT_ESCAPES ==
    <<"{","\"","c","a","t","e","g","o","r","y","\"",":","\"","R","e","f","u","n","d","/","R","e",
    "t","u","r","n","\"",",","\"","s","e","n","t","i","m","e","n","t","\"",":","\"","P","o","s",
    "i","t","i","v","e","\"",",","\"","r","e","p","l","y","\"",":","\"","D","o","n","e",".",
    "\\","n","S","e","e"," ","\\","\"","O","r","d","e","r","s","\\","\""," ","\\","u","2","1",
    "9","2"," ","R","e","t","u","r","n","s",".","\"","}">>

\* the three keys and a fourth
TEXT_EXTRA_KEY ==
    <<"{","\"","c","a","t","e","g","o","r","y","\"",":","\"","S","p","a","m","\"",",","\"","s","e",
    "n","t","i","m","e","n","t","\"",":","\"","N","e","u","t","r","a","l","\"",",","\"","r","e",
    "p","l","y","\"",":","\"","T","h","a","n","k","s",".","\"",",","\"","c","o","n","f","i","d",
    "e","n","c","e","\"",":","0",".","9","}">>

\* prose without braces
TEXT_PROSE ==
    <<"I"," ","c","a","n","n","o","t"," ","c","l","a","s","s","i","f","y"," ","t","h","i","s",".">>

\* prose that ends with a line break
TEXT_TRAILING_NEWLINE ==
    <<"S","o","r","r","y",","," ","n","o"," ","J","S","O","N"," ","t","o","d","a","y",".","\n">>

\* whitespace only
TEXT_BLANK == <<" ","\n">>

\* braces, but no "}" after the first "{"
TEXT_CLOSE_BEFORE_OPEN == <<"}"," ","o","o","p","s"," ","{">>

\* not JSON: a trailing comma
TEXT_TRAILING_COMMA ==
    <<"{","\"","c","a","t","e","g","o","r","y","\"",":","\"","S","p","a","m","\"",",","\"","s","e",
    "n","t","i","m","e","n","t","\"",":","\"","N","e","u","t","r","a","l","\"",",","\"","r","e",
    "p","l","y","\"",":","\"","T","h","a","n","k","s",".","\"",",","}">>

\* not JSON: a raw line break inside a string
TEXT_RAW_NEWLINE ==
    <<"{","\"","c","a","t","e","g","o","r","y","\"",":","\"","S","p","a","m","\"",",","\"","s","e",
    "n","t","i","m","e","n","t","\"",":","\"","N","e","u","t","r","a","l","\"",",","\"","r","e",
    "p","l","y","\"",":","\"","T","h","a","n","k","s",".","\n","B","y","e",".","\"","}">>

\* two objects with prose between them
TEXT_TWO_OBJECTS ==
    <<"{","\"","n","o","t","e","\"",":","1","}"," ","t","h","e","n"," ","{","\"","c","a","t","e",
    "g","o","r","y","\"",":","\"","S","p","a","m","\"",",","\"","s","e","n","t","i","m","e","n",
    "t","\"",":","\"","N","e","u","t","r","a","l","\"",",","\"","r","e","p","l","y","\"",":",
    "\"","T","h","a","n","k","s",".","\"","}">>

\* the empty object
TEXT_EMPTY_OBJECT == <<"{","}">>

\* JSON of the wrong shape: no reply
TEXT_MISSING_REPLY ==
    <<"{","\"","c","a","t","e","g","o","r","y","\"",":","\"","S","p","a","m","\"",",","\"","s","e",
    "n","t","i","m","e","n","t","\"",":","\"","N","e","u","t","r","a","l","\"","}">>

\* a category outside the vocabulary
TEXT_UNKNOWN_CATEGORY ==
    <<"{","\"","c","a","t","e","g","o","r","y","\"",":","\"","U","n","k","n","o","w","n","\"",",",
    "\"","s","e","n","t","i","m","e","n","t","\"",":","\"","N","e","u","t","r","a","l","\"",",",
    "\"","r","e","p","l","y","\"",":","\"","T","h","a","n","k","s",".","\"","}">>

\* labels in the wrong case
TEXT_LOWERCASE ==
    <<"{","\"","c","a","t","e","g","o","r","y","\"",":","\"","s","p","a","m","\"",",","\"","s","e",
    "n","t","i","m","e","n","t","\"",":","\"","n","e","u","t","r","a","l","\"",",","\"","r","e",
    "p","l","y","\"",":","\"","T","h","a","n","k","s",".","\"","}">>

\* values of the wrong type
TEXT_WRONG_TYPES ==
    <<"{","\"","c","a","t","e","g","o","r","y","\"",":","1",",","\"","s","e","n","t","i","m","e",
    "n","t","\"",":","n","u","l","l",",","\"","r","e","p","l","y","\"",":","[","\"","x","\"",
    "]","}">>

\* a reply that is empty once trimmed
TEXT_BLANK_REPLY ==
    <<"{","\"","c","a","t","e","g","o","r","y","\"",":","\"","S","p","a","m","\"",",","\"","s","e",
    "n","t","i","m","e","n","t","\"",":","\"","N","e","u","t","r","a","l","\"",",","\"","r","e",
    "p","l","y","\"",":","\""," "," ","\"","}">>

\* a literal only Python's decoder accepts
TEXT_NAN_REPLY ==
    <<"{","\"","c","a","t","e","g","o","r","y","\"",":","\"","S","p","a","m","\"",",","\"","s","e",
    "n","t","i","m","e","n","t","\"",":","\"","N","e","u","t","r","a","l","\"",",","\"","r","e",
    "p","l","y","\"",":","N","a","N","}">>

\* the start of a deeply nested object
TEXT_DEEP_HEAD == <<"{","\"","r","e","p","l","y","\"",":">>


\* A response that opens more arrays than the interpreter's recursion limit.
TEXT_DEEP == TEXT_DEEP_HEAD \o [i \in 1..(RecursionLimit + 1) |-> "["] \o <<"}">>

\* JSON, but an array
TEXT_JSON_LIST == <<"[","1",","," ","2","]">>

\* JSON, but a number
TEXT_JSON_NUMBER == <<"4","2">>

Messages == {MSG_DELIVERY, MSG_BRACES}

ResponseTexts ==
    {TEXT_SCENARIO1, TEXT_PROSE_PREFIX, TEXT_WRAPPED, TEXT_ESCAPES, TEXT_EXTRA_KEY, TEXT_PROSE,
     TEXT_TRAILING_NEWLINE, TEXT_BLANK, TEXT_CLOSE_BEFORE_OPEN, TEXT_TRAILING_COMMA,
     TEXT_RAW_NEWLINE, TEXT_TWO_OBJECTS, TEXT_EMPTY_OBJECT, TEXT_MISSING_REPLY,
     TEXT_UNKNOWN_CATEGORY, TEXT_LOWERCASE, TEXT_WRONG_TYPES, TEXT_BLANK_REPLY, TEXT_NAN_REPLY,
     TEXT_DEEP, TEXT_JSON_LIST, TEXT_JSON_NUMBER}

\* A response object: without a text attribute, with text None, with text "",
\* or with a text.
NoTextAttribute == [kind |-> "noattr", val |-> <<>>]

Responses == {NoTextAttribute, None, PyStr(<<>>)} \cup {PyStr(t) : t \in ResponseTexts}

\* What generate_content raises when the transport or the credentials fail.
TransportErrors == {"APIError", "ConnectError"}

\* How many times the caller invokes call_gemini in one run of the model.
MaxInvocations == 2

(***************************************************************************)
(* app.py: call_gemini                                                     *)
(***************************************************************************)
\* getattr(response, "text", "") or "" (app.py:102, 117).
ResponseText(response) ==
    IF response.kind = "str" /\ response.val # <<>> THEN response.val ELSE <<>>

\* `if data: ok, _ = validate_result(data); if ok: return data` (app.py:105-108,
\* 120-123): "return" when the value is returned, "continue" when it is not,
\* "raise" when validate_result raises.
Accepted(v) == IF v.kind = "raise" THEN "raise" ELSE IF v.ok THEN "return" ELSE "continue"

Usable(data) == IF ~Truthy(data) THEN "continue" ELSE Accepted(validate_result(data))

\* app.py:103-108 and 118-123: parse the text, then return the value or go
\* on; [kind, val]: kind "return" with the value returned, "continue", or
\* "raise" with the exception.
AttemptWith(u, v) ==
    IF u = "raise" THEN [kind |-> "raise", val |-> "TypeError"] ELSE [kind |-> u, val |-> v]

AttemptOf(parsed) ==
    IF parsed.kind = "raise" THEN parsed ELSE AttemptWith(Usable(parsed.val), parsed.val)

Attempt(text) == AttemptOf(parse_model_json(text))

\* The request of the first attempt (app.py:93-101).
FirstRequest(m) ==
    [model |-> MODEL_NAME,
     contents |-> build_system_prompt(ALLOWED_CATEGORIES, ALLOWED_SENTIMENTS)
                  \o CUSTOMER_HEADER \o m,
     temperature |-> TEMPERATURE]

\* The request of the second attempt (app.py:111-116).
SecondRequest(t1) ==
    [model |-> MODEL_NAME, contents |-> build_fix_json_prompt(t1), temperature |-> "0.0"]

\* The invocations that run concurrently: the sessions of the application, each
\* running main in a thread of its own.
ThreadIds == {1, 2}

\* The locals of an invocation that has not started.
Idle ==
    [pc |-> "idle", message |-> <<>>, calls |-> <<>>, outcomes |-> <<>>, text1 |-> <<>>,
     data1 |-> None, text2 |-> <<>>, data2 |-> None, result |-> None, error |-> "none",
     aliased |-> FALSE]

Init ==
    /\ pc = "idle"
    /\ message = <<>>
    /\ calls = <<>>
    /\ outcomes = <<>>
    /\ text1 = <<>>
    /\ data1 = None
    /\ text2 = <<>>
    /\ data2 = None
    /\ result = None
    /\ error = "none"
    /\ invocations = 0
    /\ vdata = None
    /\ vout = None
    /\ etext = <<>>
    /\ eout = Unset
    /\ eagain = Unset
    /\ fallback = FALLBACK
    /\ aliased = FALSE
    /\ threads = [i \in ThreadIds |-> Idle]
    /\ script = [i \in ThreadIds |-> <<>>]

\* The caller invokes call_gemini(m): the first request is sent (app.py:89-101).
Invoke(m) ==
    /\ pc = "idle"
    /\ invocations < MaxInvocations
    /\ pc' = "await1"
    /\ message' = m
    /\ calls' = <<FirstRequest(m)>>
    /\ invocations' = invocations + 1
    /\ outcomes' = <<>>
    /\ aliased' = FALSE
    /\ UNCHANGED <<text1, data1, text2, data2, result, error, vdata, vout, extraction, fallback, concurrent>>

\* The first generate_content returns: app.py:102-116.
FirstReturns(response) ==
    /\ pc = "await1"
    /\ outcomes' = Append(outcomes, "returned")
    /\ aliased' = FALSE
    /\ \E att \in {Attempt(ResponseText(response))} :
          /\ text1' = ResponseText(response)
          /\ data1' = IF att.kind = "raise" THEN None ELSE att.val
          /\ pc' = CASE att.kind = "raise" -> "raised"
                     [] att.kind = "return" -> "done"
                     [] OTHER -> "await2"
          /\ error' = IF att.kind = "raise" THEN att.val ELSE error
          /\ result' = IF att.kind = "return" THEN att.val ELSE result
          /\ calls' = IF att.kind = "continue"
                      THEN Append(calls, SecondRequest(ResponseText(response)))
                      ELSE calls
    /\ UNCHANGED <<message, text2, data2, invocations, vdata, vout, extraction, fallback, concurrent>>

\* The first generate_content raises: nothing in call_gemini catches it.
FirstRaises(e) ==
    /\ pc = "await1"
    /\ pc' = "raised"
    /\ error' = e
    /\ aliased' = FALSE
    /\ outcomes' = Append(outcomes, "raised")
    /\ UNCHANGED <<message, calls, text1, data1, text2, data2, result, invocations, vdata, vout, extraction, fallback, concurrent>>

\* The second generate_content returns: app.py:117-126.
SecondReturns(response) ==
    /\ pc = "await2"
    /\ outcomes' = Append(outcomes, "returned")
    /\ \E att \in {Attempt(ResponseText(response))} :
          /\ text2' = ResponseText(response)
          /\ data2' = IF att.kind = "raise" THEN None ELSE att.val
          /\ pc' = IF att.kind = "raise" THEN "raised" ELSE "done"
          /\ error' = IF att.kind = "raise" THEN att.val ELSE error
          /\ result' = CASE att.kind = "return" -> att.val
                         [] att.kind = "continue" -> fallback
                         [] OTHER -> result
          /\ aliased' = (att.kind = "continue")
    /\ UNCHANGED <<message, calls, text1, data1, invocations, vdata, vout, extraction, fallback, concurrent>>

\* A variant that catches what the second call raises and returns FALLBACK.
SecondRaises_fallback(e) ==
    /\ pc = "await2"
    /\ pc' = "done"
    /\ result' = fallback
    /\ aliased' = TRUE
    /\ outcomes' = Append(outcomes, "raised")
    /\ UNCHANGED <<message, calls, text1, data1, text2, data2, error, invocations, vdata, vout, extraction, fallback, concurrent>>

\* The second generate_content raises: nothing in call_gemini catches it.
SecondRaises(e) ==
    /\ pc = "await2"
    /\ pc' = "raised"
    /\ error' = e
    /\ aliased' = FALSE
    /\ outcomes' = Append(outcomes, "raised")
    /\ UNCHANGED <<message, calls, text1, data1, text2, data2, result, invocations, vdata, vout, extraction, fallback, concurrent>>

\* The caller is done with the outcome; the locals of the invocation are gone.
Finish ==
    /\ pc \in {"done", "raised"}
    /\ invocations < MaxInvocations
    /\ pc' = "idle"
    /\ message' = <<>>
    /\ calls' = <<>>
    /\ outcomes' = <<>>
    /\ text1' = <<>>
    /\ data1' = None
    /\ text2' = <<>>
    /\ data2' = None
    /\ result' = None
    /\ error' = "none"
    /\ aliased' = FALSE
    /\ UNCHANGED <<invocations, vdata, vout, extraction, fallback, concurrent>>

Next ==
    \/ \E m \in Messages : Invoke(m)
    \/ \E r \in Responses : FirstReturns(r)
    \/ \E e \in TransportErrors : FirstRaises(e)
    \/ \E r \in Responses : SecondReturns(r)
    \/ \E e \in TransportErrors : SecondRaises(e)
    \/ Finish

Spec == Init /\ [][Next]_vars

(***************************************************************************)
(* call_gemini under a caller that writes to the dict it was handed        *)
(***************************************************************************)
\* What such a caller stores under the key "reply".
CallerValues == {PyStr(<<>>), PyStr(<<"x">>)}

\* The caller assigns result["reply"] = v.  call_gemini returned either a dict
\* json.loads built or, by `return FALLBACK` (app.py:126), the object
\* config.FALLBACK itself: a write to the latter is a write to config.FALLBACK.
CallerWrites(v) ==
    /\ pc = "done"
    /\ result.kind = "dict"
    /\ result.val[KEY_reply] # v
    /\ result' = PyDict((KEY_reply :> v) @@ result.val)
    /\ fallback' = IF aliased THEN PyDict((KEY_reply :> v) @@ result.val) ELSE fallback
    /\ UNCHANGED <<pc, message, calls, outcomes, text1, data1, text2, data2, error, invocations,
                   vdata, vout, extraction, aliased, concurrent>>

NextCaller ==
    \/ Next
    \/ \E v \in CallerValues : CallerWrites(v)

SpecCaller == Init /\ [][NextCaller]_vars

(***************************************************************************)
(* Two invocations of call_gemini that run concurrently.  The locals of    *)
(* an invocation are the fields of its record; the steps are those of      *)
(* Invoke, FirstReturns, FirstRaises, SecondReturns and SecondRaises, as   *)
(* functions of the locals.                                                *)
(***************************************************************************)
\* The message of each invocation.
ThreadMessage(i) == IF i = 1 THEN MSG_DELIVERY ELSE MSG_BRACES

\* How a model call is answered: with a response, or by raising.
Returns(response) == [kind |-> "returns", val |-> response]

Raises(e) == [kind |-> "raises", val |-> e]

ConcurrentAnswers ==
    {Returns(PyStr(TEXT_PROSE_PREFIX)), Returns(PyStr(TEXT_PROSE)),
     Returns(PyStr(TEXT_MISSING_REPLY)), Raises("APIError")}

\* The answers to the first and to the second call of an invocation.
Scripts == [1..2 -> ConcurrentAnswers]

\* app.py:89-101: the locals once the first request is sent.
Started(msg) == [Idle EXCEPT !.pc = "await1", !.message = msg, !.calls = <<FirstRequest(msg)>>]

\* A generate_content raises (app.py:97-101, 112-116).
CallRaised(t, e) ==
    [t EXCEPT !.pc = "raised", !.error = e, !.outcomes = Append(@, "raised")]

\* app.py:102-116, given the text of the first response and what Attempt makes
\* of it.
FirstAttempted(t, text, att) ==
    [t EXCEPT !.outcomes = Append(@, "returned"),
              !.text1 = text,
              !.data1 = IF att.kind = "raise" THEN None ELSE att.val,
              !.pc = CASE att.kind = "raise" -> "raised"
                       [] att.kind = "return" -> "done"
                       [] OTHER -> "await2",
              !.error = IF att.kind = "raise" THEN att.val ELSE @,
              !.result = IF att.kind = "return" THEN att.val ELSE @,
              !.calls = IF att.kind = "continue" THEN Append(@, SecondRequest(text)) ELSE @]

AfterFirst(t, answer) ==
    IF answer.kind = "raises" THEN CallRaised(t, answer.val)
    ELSE FirstAttempted(t, ResponseText(answer.val), Attempt(ResponseText(answer.val)))

\* app.py:117-126, given the text of the second response, what Attempt makes
\* of it, and the value config.FALLBACK holds.
SecondAttempted(t, text, att, fb) ==
    [t EXCEPT !.outcomes = Append(@, "returned"),
              !.text2 = text,
              !.data2 = IF att.kind = "raise" THEN None ELSE att.val,
              !.pc = IF att.kind = "raise" THEN "raised" ELSE "done",
              !.error = IF att.kind = "raise" THEN att.val ELSE @,
              !.result = CASE att.kind = "return" -> att.val
                           [] att.kind = "continue" -> fb
                           [] OTHER -> @,
              !.aliased = (att.kind = "continue")]

AfterSecond(t, answer, fb) ==
    IF answer.kind = "raises" THEN CallRaised(t, answer.val)
    ELSE SecondAttempted(t, ResponseText(answer.val), Attempt(ResponseText(answer.val)), fb)

\* A variant in which the locals of every invocation are one set of
\* module-level variables.
Locals_shared(i) == 1

\* Where the locals of invocation i live: in its own frame.
Locals(i) == i

InitConcurrent ==
    /\ pc = "idle"
    /\ message = <<>>
    /\ calls = <<>>
    /\ outcomes = <<>>
    /\ text1 = <<>>
    /\ data1 = None
    /\ text2 = <<>>
    /\ data2 = None
    /\ result = None
    /\ error = "none"
    /\ invocations = 0
    /\ vdata = None
    /\ vout = None
    /\ etext = <<>>
    /\ eout = Unset
    /\ eagain = Unset
    /\ fallback = FALLBACK
    /\ aliased = FALSE
    /\ threads = [i \in ThreadIds |-> Idle]
    /\ script \in [ThreadIds -> Scripts]

\* Invocation i enters call_gemini and sends its first request.
ThreadInvokes(i) ==
    /\ threads[Locals(i)].pc = "idle"
    /\ threads' = [threads EXCEPT ![Locals(i)] = Started(ThreadMessage(i))]
    /\ UNCHANGED <<pc, message, calls, outcomes, text1, data1, text2, data2, result, error,
                   invocations, vdata, vout, extraction, fallback, aliased, script>>

\* The first call of invocation i is answered.
ThreadFirst(i) ==
    /\ threads[Locals(i)].pc = "await1"
    /\ threads' = [threads EXCEPT ![Locals(i)] = AfterFirst(threads[Locals(i)], script[i][1])]
    /\ UNCHANGED <<pc, message, calls, outcomes, text1, data1, text2, data2, result, error,
                   invocations, vdata, vout, extraction, fallback, aliased, script>>

\* The second call of invocation i is answered.
ThreadSecond(i) ==
    /\ threads[Locals(i)].pc = "await2"
    /\ threads' = [threads EXCEPT
                      ![Locals(i)] = AfterSecond(threads[Locals(i)], script[i][2], fallback)]
    /\ UNCHANGED <<pc, message, calls, outcomes, text1, data1, text2, data2, result, error,
                   invocations, vdata, vout, extraction, fallback, aliased, script>>

NextConcurrent ==
    \E i \in ThreadIds :
        \/ ThreadInvokes(i)
        \/ ThreadFirst(i)
        \/ ThreadSecond(i)

SpecConcurrent == InitConcurrent /\ [][NextConcurrent]_vars

(***************************************************************************)
(* validate_result called on its own, on every argument of ValidatorInputs *)
(***************************************************************************)
\* A key left out of a mapping.
Absent == [kind |-> "absent", val |-> <<>>]

\* A str of n characters.
TextOfLength(n) == [i \in 1..n |-> "a"]

CategoryValues ==
    {Absent, PyStr(<<"S","p","a","m">>), PyStr(<<"s","p","a","m">>),
     PyStr(<<"U","n","k","n","o","w","n">>), [kind |-> "int", val |-> <<"1">>], None}

SentimentValues ==
    {Absent, PyStr(<<"N","e","u","t","r","a","l">>), PyStr(<<"n","e","u","t","r","a","l">>),
     PyList(<<PyStr(<<"N","e","u","t","r","a","l">>)>>)}

ReplyValues ==
    {Absent, PyStr(<<"T","h","a","n","k","s",".">>), PyStr(<<>>), PyStr(<<" ","\n">>),
     PyStr(TextOfLength(MAX_REPLY_LEN)), PyStr(TextOfLength(MAX_REPLY_LEN + 1)),
     PyStr(TextOfLength(MAX_REPLY_LEN - 1) \o <<" "," ">>), [kind |-> "int", val |-> <<"5">>]}

ExtraValues == {Absent, [kind |-> "float", val |-> <<"0",".","9">>]}

KEY_confidence == <<"c","o","n","f","i","d","e","n","c","e">>

\* The dict of the given values, without the keys whose value is Absent.
Member(key, v) == IF v = Absent THEN <<>> ELSE (key :> v)

Mapping(c, s, r, x) ==
    PyDict(Member(KEY_category, c) @@ Member(KEY_sentiment, s) @@ Member(KEY_reply, r)
           @@ Member(KEY_confidence, x))

ValidatorInputs ==
    {Mapping(c, s, r, x) : c \in CategoryValues, s \in SentimentValues,
                           r \in ReplyValues, x \in ExtraValues}
    \cup {None, PyStr(KEY_category \o KEY_sentiment \o KEY_reply),
          PyList(<<PyStr(KEY_category), PyStr(KEY_sentiment), PyStr(KEY_reply)>>),
          [kind |-> "int", val |-> <<"7">>]}

InitValidate ==
    /\ pc = "idle"
    /\ message = <<>>
    /\ calls = <<>>
    /\ outcomes = <<>>
    /\ text1 = <<>>
    /\ data1 = None
    /\ text2 = <<>>
    /\ data2 = None
    /\ result = None
    /\ error = "none"
    /\ invocations = 0
    /\ vdata \in ValidatorInputs
    /\ vout = None
    /\ etext = <<>>
    /\ eout = Unset
    /\ eagain = Unset
    /\ fallback = FALLBACK
    /\ aliased = FALSE
    /\ threads = [i \in ThreadIds |-> Idle]
    /\ script = [i \in ThreadIds |-> <<>>]

\* validate_result(vdata) is called and returns (or raises).
Validate ==
    /\ vout = None
    /\ vout' = validate_result(vdata)
    /\ UNCHANGED <<pc, message, calls, outcomes, text1, data1, text2, data2, result, error,
                   invocations, vdata, extraction, fallback, aliased, concurrent>>

NextValidate == Validate

SpecValidate == InitValidate /\ [][NextValidate]_vars

(***************************************************************************)
(* extract_json_object called on its own, on every text of ExtractInputs,  *)
(* and once more on the text it returned                                   *)
(***************************************************************************)
\* The characters of the short texts: the braces, whitespace, a letter.
Alphabet == {"{", "}", " ", "a", "\n"}

\* The length of the longest short text.
MaxTextLen == 4

ShortTexts == UNION {[1..n -> Alphabet] : n \in 0..MaxTextLen}

\* prose around two brace-delimited fragments, with prose between them
TEXT_TWO_FRAGMENTS ==
    <<"S","e","e"," ","{","a","}"," ","a","n","d"," ","{","b","}",".","\n">>

ExtractInputs == ShortTexts \cup (ResponseTexts \ {TEXT_DEEP}) \cup {TEXT_TWO_FRAGMENTS}

InitExtract ==
    /\ pc = "idle"
    /\ message = <<>>
    /\ calls = <<>>
    /\ outcomes = <<>>
    /\ text1 = <<>>
    /\ data1 = None
    /\ text2 = <<>>
    /\ data2 = None
    /\ result = None
    /\ error = "none"
    /\ invocations = 0
    /\ vdata = None
    /\ vout = None
    /\ etext \in ExtractInputs
    /\ eout = Unset
    /\ eagain = Unset
    /\ fallback = FALLBACK
    /\ aliased = FALSE
    /\ threads = [i \in ThreadIds |-> Idle]
    /\ script = [i \in ThreadIds |-> <<>>]

\* extract_json_object(etext) is called and returns.
Extract ==
    /\ eout = Unset
    /\ eout' = extract_json_object(etext)
    /\ UNCHANGED <<pc, message, calls, outcomes, text1, data1, text2, data2, result, error,
                   invocations, vdata, vout, etext, eagain, fallback, aliased, concurrent>>

\* extract_json_object is called on the text it returned.
ExtractAgain ==
    /\ eout.kind = "str"
    /\ eagain = Unset
    /\ eagain' = extract_json_object(eout.val)
    /\ UNCHANGED <<pc, message, calls, outcomes, text1, data1, text2, data2, result, error,
                   invocations, vdata, vout, etext, eout, fallback, aliased, concurrent>>

NextExtract == Extract \/ ExtractAgain

SpecExtract == InitExtract /\ [][NextExtract]_vars

(***************************************************************************)
(* What the specification states, in its own terms                         *)
(***************************************************************************)
Range(s) == {s[i] : i \in 1..Len(s)}

SchemaKeys == {KEY_category, KEY_sentiment, KEY_reply}

\* The six rules of section 4.4, as the specification words them: a mapping,
\* of exactly the three keys, category and sentiment in their vocabularies,
\* reply a str that is not empty once trimmed, of at most 350 characters.
SatisfiesSixRules(v) ==
    /\ v.kind = "dict"
    /\ DOMAIN v.val = SchemaKeys
    /\ v.val[KEY_category].kind = "str"
    /\ v.val[KEY_category].val \in Range(ALLOWED_CATEGORIES)
    /\ v.val[KEY_sentiment].kind = "str"
    /\ v.val[KEY_sentiment].val \in Range(ALLOWED_SENTIMENTS)
    /\ v.val[KEY_reply].kind = "str"
    /\ Strip(v.val[KEY_reply].val) # <<>>
    /\ Len(v.val[KEY_reply].val) <= MAX_REPLY_LEN

\* A response text that is unparsable or schema-invalid.
UnusableParse(parsed) == parsed.kind # "return" \/ ~SatisfiesSixRules(parsed.val)

Unusable(text) == UnusableParse(parse_model_json(text))

\* Every model call made so far has returned.
AllReturned == \A i \in 1..Len(outcomes) : outcomes[i] = "returned"

\* The first call has returned.
FirstReturned == outcomes # <<>> /\ outcomes[1] = "returned"

\* text occurs in contents, character for character.
Embeds(contents, text) ==
    \E o \in 0..(Len(contents) - Len(text)) : SubSeq(contents, o + 1, o + Len(text)) = text

IsPrefix(p, s) == Len(p) <= Len(s) /\ SubSeq(s, 1, Len(p)) = p

IsSuffix(p, s) == Len(p) <= Len(s) /\ SubSeq(s, Len(s) - Len(p) + 1, Len(s)) = p

\* The literals Python's decoder accepts and JSON has not.
NonFiniteLiterals ==
    {<<"N","a","N">>, <<"I","n","f","i","n","i","t","y">>, <<"-","I","n","f","i","n","i","t","y">>}

NonFiniteToken(tok) ==
    tok.kind = "value" /\ tok.val.kind = "float" /\ tok.val.val \in NonFiniteLiterals

\* s is one syntactically valid JSON document.
ValidJsonTokens(toks) ==
    Decode(toks).kind = "ok" /\ \A i \in 1..Len(toks) : ~NonFiniteToken(toks[i])

ValidJson(s) == ValidJsonTokens(Tokens(s))

\* extract_json_object yields nothing, or what it yields is not valid JSON.
NothingToParse(json_str) == json_str = None \/ ~ValidJson(json_str.val)

\* the object TEXT_SCENARIO1 writes
OBJECT_SCENARIO1 ==
    PyDict((KEY_category :> PyStr(<<"D","e","l","i","v","e","r","y"," ","Q","u","e","s","t","i","o","n">>))
           @@ (KEY_sentiment :> PyStr(<<"N","e","g","a","t","i","v","e">>))
           @@ (KEY_reply :> PyStr(
        <<"W","e","'","r","e"," ","s","o","r","r","y"," ","f","o","r"," ","t","h","e"," ","d","e",
        "l","a","y",";"," ","c","h","e","c","k","i","n","g"," ","n","o","w",".">>)))

\* the object inside TEXT_PROSE_PREFIX
OBJECT_PROSE_PREFIX ==
    PyDict((KEY_category :> PyStr(<<"S","p","a","m">>))
           @@ (KEY_sentiment :> PyStr(<<"N","e","u","t","r","a","l">>))
           @@ (KEY_reply :> PyStr(
        <<"T","h","a","n","k","s",".">>)))

\* the object inside TEXT_WRAPPED
OBJECT_WRAPPED ==
    PyDict((KEY_category :> PyStr(<<"C","o","m","p","l","a","i","n","t">>))
           @@ (KEY_sentiment :> PyStr(<<"N","e","g","a","t","i","v","e">>))
           @@ (KEY_reply :> PyStr(
        <<"W","e"," ","a","p","o","l","o","g","i","s","e",".">>)))

\* the object TEXT_ESCAPES writes, its escapes decoded
OBJECT_ESCAPES ==
    PyDict((KEY_category :> PyStr(<<"R","e","f","u","n","d","/","R","e","t","u","r","n">>))
           @@ (KEY_sentiment :> PyStr(<<"P","o","s","i","t","i","v","e">>))
           @@ (KEY_reply :> PyStr(
        <<"D","o","n","e",".","\n","S","e","e"," ","\"","O","r","d","e","r","s","\""," ","U+2192"," ",
        "R","e","t","u","r","n","s",".">>)))

\* The response texts that write a schema-valid object, whole or inside prose.
SchemaValidTexts == {TEXT_SCENARIO1, TEXT_PROSE_PREFIX, TEXT_WRAPPED, TEXT_ESCAPES}

\* The object such a text writes.
WrittenObject(text) ==
    IF text = TEXT_SCENARIO1 THEN OBJECT_SCENARIO1
    ELSE IF text = TEXT_PROSE_PREFIX THEN OBJECT_PROSE_PREFIX
    ELSE IF text = TEXT_WRAPPED THEN OBJECT_WRAPPED
    ELSE OBJECT_ESCAPES

(***************************************************************************)
(* C1                                                                      *)
(***************************************************************************)
\* C1: whatever call_gemini returns, on the first-attempt path, the
\* second-attempt path or the fallback path, satisfies all six validator rules
\* of section 4.4.  Refuted: a response with a fourth key is returned as it is
\* (C3).
C1_ReturnedResultSatisfiesSixRules == pc = "done" => SatisfiesSixRules(result)

(***************************************************************************)
(* C2                                                                      *)
(***************************************************************************)
\* C2: an invocation makes at most two model calls, one after the other, and
\* when its model calls return it ends in DONE: it never ends with an
\* exception.  Refuted: a response nested deeper than the recursion limit ends
\* the invocation with RecursionError (C6).
C2_DoneWithinTwoCalls ==
    /\ Len(calls) <= 2
    /\ Len(outcomes) <= Len(calls)
    /\ Len(calls) <= Len(outcomes) + 1
    /\ AllReturned => pc # "raised"

(***************************************************************************)
(* C3                                                                      *)
(***************************************************************************)
\* C3: validate_result passes a mapping only if its key set is exactly
\* {category, sentiment, reply}.  Refuted: the loop of app.py:45-47 tests that
\* the three keys are present and nothing else, so a mapping with a fourth key
\* passes.
C3_PassesOnlyExactKeySet ==
    (vout.kind = "return" /\ vout.ok) => (vdata.kind = "dict" /\ DOMAIN vdata.val = SchemaKeys)

(***************************************************************************)
(* C4                                                                      *)
(***************************************************************************)
\* The first response failed extraction, parsing or validation.
FailedParse(parsed) ==
    parsed.kind # "return" \/ parsed.val = None \/ ~validate_result(parsed.val).ok

FirstFailed == FailedParse(parse_model_json(text1))

\* C4: the first call uses temperature 0.2 and the instruction prompt followed
\* by the customer message; a second call is made if and only if the first
\* response failed extraction, parsing or validation, only after the first call
\* returned, with temperature 0 and a correction prompt that embeds the first
\* response text unmodified.  Refuted: build_fix_json_prompt strips the prompt,
\* and with it the whitespace the first response ends with; and a first
\* response that fails parsing with RecursionError is followed by no second
\* call (C6).
C4_SecondCallIffFirstFailed ==
    /\ Len(calls) >= 1 =>
          /\ calls[1].temperature = TEMPERATURE
          /\ IsPrefix(build_system_prompt(ALLOWED_CATEGORIES, ALLOWED_SENTIMENTS),
                      calls[1].contents)
          /\ IsSuffix(message, calls[1].contents)
    /\ Len(calls) = 2 => FirstReturned
    /\ FirstReturned => (Len(calls) = 2 <=> FirstFailed)
    /\ Len(calls) = 2 =>
          /\ calls[2].temperature = "0.0"
          /\ Embeds(calls[2].contents, text1)

(***************************************************************************)
(* C5                                                                      *)
(***************************************************************************)
\* C5: when a model call raises, the exception leaves call_gemini: the call
\* that raised is the last call of the invocation (no retry, no second call
\* after a first call that raised), and no result, the fallback included, is
\* returned.
C5_TransportFailurePropagates ==
    \A i \in 1..Len(outcomes) :
        outcomes[i] = "raised" =>
            /\ pc = "raised"
            /\ error \in TransportErrors
            /\ result = None
            /\ Len(calls) = i
            /\ Len(outcomes) = i

\* The second call of an invocation has raised.
C5_SecondCallRaised ==
    /\ outcomes = <<"returned", "raised">>
    /\ pc = "raised"
    /\ error \in TransportErrors
    /\ Len(calls) = 2

(***************************************************************************)
(* C6                                                                      *)
(***************************************************************************)
\* What C6 states of one response text.
RecoveredParse(parsed, json_str) ==
    /\ parsed.kind = "return"
    /\ validate_result(parsed.val).kind = "return"
    /\ parsed.val = None <=> NothingToParse(json_str)

Recovered(text) == RecoveredParse(parse_model_json(text), extract_json_object(text))

\* C6: for any response text, parse_model_json and validate_result raise
\* nothing, call_gemini ends with an exception only when a model call raised,
\* and parse_model_json returns None exactly when extraction yields nothing or
\* the extracted text is not valid JSON.  Refuted: parse_model_json catches
\* JSONDecodeError only, and json.loads raises RecursionError on a text nested
\* deeper than the recursion limit.
C6_NoContentFailureRaises ==
    /\ Recovered(text1)
    /\ Recovered(text2)
    /\ pc = "raised" => ~AllReturned

(***************************************************************************)
(* C7                                                                      *)
(***************************************************************************)
\* C7: when the first and the second response are both unparsable or
\* schema-invalid, call_gemini returns FALLBACK exactly; and FALLBACK passes
\* validate_result.  Refuted: a second response nested deeper than the
\* recursion limit ends the invocation with RecursionError (C6), and a second
\* response with a fourth key is returned in place of FALLBACK (C3).
C7_FallbackWhenBothUnusable ==
    /\ validate_result(FALLBACK).kind = "return"
    /\ validate_result(FALLBACK).ok
    /\ (outcomes = <<"returned", "returned">> /\ Unusable(text1) /\ Unusable(text2))
          => (pc = "done" /\ result = FALLBACK)

(***************************************************************************)
(* C8                                                                      *)
(***************************************************************************)
\* C8: when the first response holds a schema-valid object, as the whole text
\* or inside prose around one {...} block, call_gemini returns that object
\* unchanged after exactly one model call.
C8_FirstValidReturnedUnchanged ==
    FirstReturned =>
        /\ text1 \in SchemaValidTexts =>
              (pc = "done" /\ result = WrittenObject(text1) /\ Len(calls) = 1 /\ Len(outcomes) = 1)
        /\ ~Unusable(text1) =>
              (pc = "done" /\ result = parse_model_json(text1).val /\ Len(calls) = 1)

\* A schema-valid object inside prose was returned after one call.
C8_WrappedObjectReturned ==
    /\ pc = "done"
    /\ text1 = TEXT_WRAPPED
    /\ result = OBJECT_WRAPPED
    /\ Len(calls) = 1

(***************************************************************************)
(* C9                                                                      *)
(***************************************************************************)
\* C9: when the first response is unparsable or schema-invalid and the second
\* response holds a schema-valid object, call_gemini returns the object of the
\* second response: after an unusable first response the corrective call is
\* made, and what it answers is returned, not FALLBACK and nothing of the first
\* response.  Refuted: after a first response nested deeper than the recursion
\* limit call_gemini raises RecursionError and asks for no second response
\* (C6), and a first response that is schema-invalid by a fourth key is
\* returned as it is (C3).
C9_SecondValidReturned ==
    (FirstReturned /\ Unusable(text1)) =>
        /\ Len(outcomes) = 1 => (pc = "await2" /\ Len(calls) = 2)
        /\ (outcomes = <<"returned", "returned">> /\ text2 \in SchemaValidTexts)
              => (pc = "done" /\ result = WrittenObject(text2))
        /\ (outcomes = <<"returned", "returned">> /\ ~Unusable(text2))
              => /\ pc = "done"
                 /\ result = parse_model_json(text2).val
                 /\ result # FALLBACK
                 /\ result # data1

(***************************************************************************)
(* C10                                                                     *)
(***************************************************************************)
\* The first of the three keys a mapping lacks.
FirstMissingKey(f) ==
    IF KEY_category \notin DOMAIN f THEN KEY_category
    ELSE IF KEY_sentiment \notin DOMAIN f THEN KEY_sentiment
    ELSE KEY_reply

\* The verdict of the earliest rule a value violates, the rules taken in the
\* order of section 4.4.
EarliestViolation(v) ==
    IF v.kind # "dict" THEN Verdict(FALSE, [text |-> MSG_NOT_OBJECT, arg |-> None])
    ELSE IF ~(SchemaKeys \subseteq DOMAIN v.val)
    THEN Verdict(FALSE, [text |-> MSG_MISSING_KEY \o FirstMissingKey(v.val), arg |-> None])
    ELSE IF ~(v.val[KEY_category].kind = "str"
              /\ v.val[KEY_category].val \in Range(ALLOWED_CATEGORIES))
    THEN Verdict(FALSE, FString(MSG_INVALID_CATEGORY, v.val[KEY_category]))
    ELSE IF ~(v.val[KEY_sentiment].kind = "str"
              /\ v.val[KEY_sentiment].val \in Range(ALLOWED_SENTIMENTS))
    THEN Verdict(FALSE, FString(MSG_INVALID_SENTIMENT, v.val[KEY_sentiment]))
    ELSE IF ~(v.val[KEY_reply].kind = "str" /\ Strip(v.val[KEY_reply].val) # <<>>)
    THEN Verdict(FALSE, [text |-> MSG_REPLY_EMPTY, arg |-> None])
    ELSE IF Len(v.val[KEY_reply].val) > MAX_REPLY_LEN
    THEN Verdict(FALSE, [text |-> MSG_REPLY_TOO_LONG, arg |-> None])
    ELSE Verdict(TRUE, [text |-> MSG_OK, arg |-> None])

\* C10: validate_result checks mapping, keys present (category, sentiment,
\* reply), category, sentiment, reply non-empty, reply length, in this order,
\* and returns the reason of the earliest rule violated; a missing key is
\* named in the reason, the first missing one when several are.
C10_FirstFailureWins == vout # None => vout = EarliestViolation(vdata)

\* A mapping that violates rules 3, 4 and 6 was rejected for its category.
C10_SeveralRulesViolated ==
    /\ vdata = Mapping(PyStr(<<"U","n","k","n","o","w","n">>), PyStr(<<"n","e","u","t","r","a","l">>),
                       PyStr(TextOfLength(MAX_REPLY_LEN + 1)), Absent)
    /\ vout # None
    /\ ~vout.ok
    /\ vout.reason.text = MSG_INVALID_CATEGORY \o <<"U","n","k","n","o","w","n">>
(***************************************************************************)
(* C11                                                                     *)
(***************************************************************************)
\* v is a str equal, character for character, to a member of list.
InVocabulary(v, list) == v.kind = "str" /\ v.val \in Range(list)

\* validate_result has rejected its argument with the reason that starts so.
RejectedFor(reason) == ~vout.ok /\ IsPrefix(reason, vout.reason.text)

\* C11: validate_result accepts a category only when it equals, case and all,
\* one of the 7 allowed categories, and a sentiment only when it equals one of
\* the 3 allowed sentiments: for a mapping that holds the three keys, the
\* category is rejected exactly when it is no such member, and past the
\* category the sentiment is rejected exactly when it is no such member;
\* "Unknown", "spam" and a value that is no str are rejected, "Spam" is not.
C11_ExactVocabularyMatch ==
    /\ Cardinality(Range(ALLOWED_CATEGORIES)) = 7
    /\ Cardinality(Range(ALLOWED_SENTIMENTS)) = 3
    /\ <<"S","p","a","m">> \in Range(ALLOWED_CATEGORIES)
    /\ <<"s","p","a","m">> \notin Range(ALLOWED_CATEGORIES)
    /\ <<"U","n","k","n","o","w","n">> \notin Range(ALLOWED_CATEGORIES)
    /\ (vout # None /\ vdata.kind = "dict" /\ SchemaKeys \subseteq DOMAIN vdata.val) =>
          /\ RejectedFor(MSG_INVALID_CATEGORY)
                <=> ~InVocabulary(vdata.val[KEY_category], ALLOWED_CATEGORIES)
          /\ InVocabulary(vdata.val[KEY_category], ALLOWED_CATEGORIES) =>
                (RejectedFor(MSG_INVALID_SENTIMENT)
                    <=> ~InVocabulary(vdata.val[KEY_sentiment], ALLOWED_SENTIMENTS))
          /\ vout.ok =>
                /\ InVocabulary(vdata.val[KEY_category], ALLOWED_CATEGORIES)
                /\ InVocabulary(vdata.val[KEY_sentiment], ALLOWED_SENTIMENTS)

\* A category in the wrong case, otherwise a valid mapping, was rejected.
C11_CaseVariantRejected ==
    /\ vdata = Mapping(PyStr(<<"s","p","a","m">>), PyStr(<<"N","e","u","t","r","a","l">>),
                       PyStr(<<"T","h","a","n","k","s",".">>), Absent)
    /\ vout # None
    /\ ~vout.ok
    /\ vout.reason.text = MSG_INVALID_CATEGORY \o <<"s","p","a","m">>
(***************************************************************************)
(* C12                                                                     *)
(***************************************************************************)
\* The argument of validate_result is a mapping of the three keys (and
\* perhaps more) whose category and sentiment are valid.
LabelsValid ==
    /\ vdata.kind = "dict"
    /\ SchemaKeys \subseteq DOMAIN vdata.val
    /\ InVocabulary(vdata.val[KEY_category], ALLOWED_CATEGORIES)
    /\ InVocabulary(vdata.val[KEY_sentiment], ALLOWED_SENTIMENTS)

\* C12: for a mapping whose category and sentiment are valid, validate_result
\* rejects a reply that is no str or is empty once trimmed, and of the other
\* replies accepts those of at most 350 characters and rejects those of 351
\* or more, the characters counted on the reply as given, untrimmed.
C12_ReplyRules ==
    (vout # None /\ LabelsValid) =>
        /\ (vdata.val[KEY_reply].kind # "str" \/ Strip(vdata.val[KEY_reply].val) = <<>>)
              => (~vout.ok /\ vout.reason.text = MSG_REPLY_EMPTY)
        /\ (vdata.val[KEY_reply].kind = "str" /\ Strip(vdata.val[KEY_reply].val) # <<>>)
              => /\ Len(vdata.val[KEY_reply].val) <= 350 => vout.ok
                 /\ Len(vdata.val[KEY_reply].val) >= 351
                       => (~vout.ok /\ vout.reason.text = MSG_REPLY_TOO_LONG)

\* A reply of 351 characters, 349 once trimmed, was rejected as too long.
C12_UntrimmedLengthCounts ==
    /\ LabelsValid
    /\ vdata.val[KEY_reply].kind = "str"
    /\ Len(vdata.val[KEY_reply].val) = 351
    /\ Len(Strip(vdata.val[KEY_reply].val)) = 349
    /\ vout # None
    /\ ~vout.ok
    /\ vout.reason.text = MSG_REPLY_TOO_LONG
(***************************************************************************)
(* C13                                                                     *)
(***************************************************************************)
\* C13: extract_json_object returns a text that starts with "{" and ends with
\* "}" unchanged, and it is idempotent: called on a text it returned, it
\* returns that text.
C13_ExtractionIdempotent ==
    /\ (eout # Unset /\ etext # <<>> /\ etext[1] = "{" /\ etext[Len(etext)] = "}")
          => eout = PyStr(etext)
    /\ eagain # Unset => eagain = eout

\* A text inside prose was extracted, and extracted again from the result.
C13_ExtractedTwice ==
    /\ etext = <<"a", "{", "a", "}">>
    /\ eout = PyStr(<<"{", "a", "}">>)
    /\ eagain = PyStr(<<"{", "a", "}">>)
(***************************************************************************)
(* C14                                                                     *)
(***************************************************************************)
\* The positions of the character c in s.
Positions(s, c) == {i \in 1..Len(s) : s[i] = c}

Least(S) == CHOOSE i \in S : \A j \in S : i <= j

Greatest(S) == CHOOSE i \in S : \A j \in S : j <= i

\* s holds a "{" with a "}" somewhere after it.
HasBracePair(s) == \E i \in Positions(s, "{") : \E j \in Positions(s, "}") : i < j

\* How many braces are open after the first i characters of s.
OpenAfter(s, i) ==
    Cardinality({k \in 1..i : s[k] = "{"}) - Cardinality({k \in 1..i : s[k] = "}"})

\* s is one {...} block: it opens with "{", closes with its last character, and
\* is not closed before it.
SingleBlock(s) ==
    /\ Len(s) >= 2
    /\ s[1] = "{"
    /\ OpenAfter(s, Len(s)) = 0
    /\ \A i \in 1..(Len(s) - 1) : OpenAfter(s, i) >= 1

\* The part of a text with a brace pair from its first "{" to its last "}":
\* what is before it and after it holds no brace.
BraceSpan(s) == SubSeq(s, Least(Positions(s, "{")), Greatest(Positions(s, "}")))

\* C14: for a text made of prose, with no brace in it, before and/or after a
\* single {...} block, extract_json_object returns exactly the block; for a
\* text with no brace pair (empty, no "{", no "}", or every "}" before the
\* first "{") it returns None.
C14_EmbeddedBlockExtracted ==
    eout # Unset =>
        /\ ~HasBracePair(etext) => eout = None
        /\ (HasBracePair(etext) /\ SingleBlock(BraceSpan(etext))) => eout = PyStr(BraceSpan(etext))

\* An object on several lines, with prose before and after it, was extracted.
C14_BlockInsideProse ==
    /\ etext = TEXT_WRAPPED
    /\ eout.kind = "str"
    /\ eout.val = BraceSpan(TEXT_WRAPPED)
    /\ Len(eout.val) < Len(Strip(TEXT_WRAPPED))
    /\ SingleBlock(eout.val)

C16_FallbackKeepsInitialValue == fallback = FALLBACK
(***************************************************************************)
(* C15                                                                     *)
(***************************************************************************)
\* How many steps an invocation has taken: entering call_gemini, and one step
\* per model call answered.
StepsOf(t) == IF t.pc = "idle" THEN 0 ELSE 1 + Len(t.outcomes)

\* The locals and outcome of an invocation that runs alone with message msg
\* and answers sc, after k steps.
Alone(msg, sc, k) ==
    IF k = 0 THEN Idle
    ELSE IF k = 1 THEN Started(msg)
    ELSE IF k = 2 THEN AfterFirst(Started(msg), sc[1])
    ELSE AfterSecond(AfterFirst(Started(msg), sc[1]), sc[2], FALLBACK)

\* C15: under every interleaving of two invocations, the model calls, the
\* prompts and the result of each are those of the invocation running alone
\* with the same message and the same answers, at every step; and the
\* fallback, which both read, is written by neither.
C15_InvocationsIndependent ==
    /\ fallback = FALLBACK
    /\ \A i \in ThreadIds :
          threads[i] = Alone(ThreadMessage(i), script[i], StepsOf(threads[i]))

\* One invocation has fallen back while the other waits for its second
\* response.
C15_Interleaved ==
    /\ threads[1].pc = "await2"
    /\ Len(threads[1].calls) = 2
    /\ threads[2].pc = "done"
    /\ threads[2].aliased
    /\ threads[2].result = FALLBACK
    /\ threads[2].message # threads[1].message
(***************************************************************************)
(* C18                                                                     *)
(***************************************************************************)
\* The attempt of app.py:103-108 without its `if data:`: validate_result is
\* called on whatever parse_model_json returned.
GuardFreeOf(parsed) ==
    IF parsed.kind = "raise" THEN parsed
    ELSE AttemptWith(Accepted(validate_result(parsed.val)), parsed.val)

GuardFree(text) == GuardFreeOf(parse_model_json(text))

\* parse_model_json returned a value that validate_result does not pass.
FailsValidation(parsed) ==
    /\ parsed.kind = "return"
    /\ validate_result(parsed.val).kind = "return"
    /\ ~validate_result(parsed.val).ok

\* Every value the guard skips fails validate_result.
SkippedWouldFail(parsed) ==
    (parsed.kind = "return" /\ ~Truthy(parsed.val)) => FailsValidation(parsed)

\* The second call has returned.
SecondReturned == outcomes = <<"returned", "returned">>

\* C18: the `if data:` of call_gemini never changes the outcome.  Of each
\* response text, the attempt with the guard is the attempt without it, and a
\* value the guard skips fails validate_result; the second call is made
\* exactly when extraction, parsing and validation of the first response end
\* without a value that passes, and FALLBACK is returned exactly when those of
\* the second response do.  (An exception of parse_model_json leaves the
\* attempt with or without the guard.)
C18_GuardNeverChangesOutcome ==
    /\ FirstReturned => Attempt(text1) = GuardFree(text1)
    /\ SecondReturned => Attempt(text2) = GuardFree(text2)
    /\ FirstReturned => SkippedWouldFail(parse_model_json(text1))
    /\ SecondReturned => SkippedWouldFail(parse_model_json(text2))
    /\ (FirstReturned /\ parse_model_json(text1).kind = "return")
          => (Len(calls) = 2 <=> FailsValidation(parse_model_json(text1)))
    /\ (SecondReturned /\ parse_model_json(text2).kind = "return")
          => ((pc = "done" /\ aliased /\ result = fallback)
                 <=> FailsValidation(parse_model_json(text2)))

\* The first response is {}: the guard skips it, and the second call is made.
C18_EmptyObjectRetried ==
    /\ text1 = TEXT_EMPTY_OBJECT
    /\ data1 = PyDict(<<>>)
    /\ pc = "await2"
    /\ Len(calls) = 2

(***************************************************************************)
(* C19                                                                     *)
(***************************************************************************)
\* What extract_json_object returns is None or starts with { and ends with }.
Bracketed(json_str) ==
    json_str # None =>
        /\ json_str.kind = "str"
        /\ StartsWith(json_str.val, "{")
        /\ EndsWith(json_str.val, "}")

\* What parse_model_json returns is None or a mapping.
NoneOrMapping(parsed) == parsed.kind = "return" => parsed.val.kind \in {"None", "dict"}

\* validate_result, called where call_gemini calls it, does not fail by its
\* first rule.
NotRuleOne(data) ==
    Truthy(data) => validate_result(data).reason.text # MSG_NOT_OBJECT

\* C19: of every response text, extraction yields None or a text that starts
\* with { and ends with }, parse_model_json returns None or a mapping, never
\* a list or a scalar, and validate_result never fails a value of the pipeline
\* for not being a mapping.
C19_ParsedIsNoneOrMapping ==
    /\ FirstReturned => Bracketed(extract_json_object(text1))
    /\ SecondReturned => Bracketed(extract_json_object(text2))
    /\ FirstReturned => NoneOrMapping(parse_model_json(text1))
    /\ SecondReturned => NoneOrMapping(parse_model_json(text2))
    /\ data1.kind \in {"None", "dict"}
    /\ data2.kind \in {"None", "dict"}
    /\ NotRuleOne(data1)
    /\ NotRuleOne(data2)

\* The first response is a JSON array, the second a JSON number: nothing is
\* extracted from either, and FALLBACK is returned.
C19_ListAndScalarAnswered ==
    /\ text1 = TEXT_JSON_LIST
    /\ text2 = TEXT_JSON_NUMBER
    /\ data1 = None
    /\ data2 = None
    /\ pc = "done"
    /\ result = FALLBACK

=============================================================================
